---- MODULE Spec2Model ----
(***************************************************************************)
(* Model of src/server.js: the air-quality data-resolution pipeline        *)
(* (getOpenAQData -> getAirQualityData with its helpers) and the           *)
(* WebSocket push loop.                                                    *)
(*                                                                         *)
(* Numbers.  JavaScript numbers are modelled as fixed-point integers in    *)
(* hundredths (78 is 7800, 12.3 is 1230); a product with 1.05 is rounded   *)
(* down to the next hundredth.  NaN and undefined are two values outside   *)
(* the numeric range, and every comparison with either of them is false,   *)
(* as in JavaScript.                                                       *)
(***************************************************************************)
EXTENDS Integers, Sequences, FiniteSets

VARIABLES
    pc,          \* position of the HTTP resolution: "idle", "awaitProvider", "done"
    location,    \* the location the current resolution was asked for
    response,    \* what the provider call produced (axios response or rejection)
    openAQData,  \* what getOpenAQData returned to getAirQualityData
    raised,      \* TRUE when an exception escaped getAirQualityData
    data,        \* the Reading getAirQualityData returned
    catCall,     \* helper harness: the last two getAQICategory calls (argument, result)
    conn,        \* WebSocket: per client "none", "open", "closed"
    timer,       \* WebSocket: per client, whether its setInterval timer is active
    ticks,       \* WebSocket: per client, how many times its timer fired
    started,     \* WebSocket: per client, the resolutions started (kind, state of the connection then)
    inflight,    \* WebSocket: per client, indices into started still awaiting the provider
    received     \* WebSocket: per client, the message types delivered, in order

vars == <<pc, location, response, openAQData, raised, data, catCall,
          conn, timer, ticks, started, inflight, received>>

httpVars == <<pc, location, response, openAQData, raised, data>>
wsVars == <<conn, timer, ticks, started, inflight, received>>

----------------------------------------------------------------------------
(* Numbers *)

Scale == 10 * 10
NaN == 0 - (1000 * Scale)
Undefined == NaN - 1

IsNum(x) == x # NaN /\ x # Undefined

\* a <= b in JavaScript: false when either side is NaN or undefined
Leq(a, b) == IsNum(a) /\ IsNum(b) /\ a <= b

\* Math.max / Math.min: NaN when an argument is NaN
MathMax(a, b) == IF ~IsNum(a) \/ ~IsNum(b) THEN NaN ELSE IF a >= b THEN a ELSE b
MathMin(a, b) == IF ~IsNum(a) \/ ~IsNum(b) THEN NaN ELSE IF a <= b THEN a ELSE b

\* Math.round: floor(x + 0.5), NaN for NaN
MathRound(x) == IF ~IsNum(x) THEN NaN ELSE ((x + (Scale \div 2)) \div Scale) * Scale

\* a + b, a * k: NaN when an operand is NaN or undefined
Plus(a, b) == IF ~IsNum(a) \/ ~IsNum(b) THEN NaN ELSE a + b
Times(a, k) == IF ~IsNum(a) THEN NaN ELSE a * k

\* (Math.random() - 0.5) * width, Math.random() given in hundredths
Variation(r, width) == (r - (Scale \div 2)) * width

----------------------------------------------------------------------------
(* Mock data: cityData, src/server.js:24-29 *)

cityData ==
    [k \in {"New York, NY", "Delhi, India", "London, UK"} |->
        CASE k = "New York, NY" ->
               [aqi |-> 7800, category |-> "moderate",
                pollutants |-> [defined |-> TRUE,
                    map |-> [p \in {"pm25"} |-> [value |-> 1230, unit |-> "ug/m3", status |-> "Good"]]]]
          [] k = "Delhi, India" ->
               [aqi |-> 24500, category |-> "very-unhealthy",
                pollutants |-> [defined |-> TRUE,
                    map |-> [p \in {"pm25"} |-> [value |-> 4560, unit |-> "ug/m3", status |-> "Very Unhealthy"]]]]
          [] k = "London, UK" ->
               [aqi |-> 5500, category |-> "moderate",
                pollutants |-> [defined |-> TRUE,
                    map |-> [p \in {"pm25"} |-> [value |-> 1120, unit |-> "ug/m3", status |-> "Good"]]]]]

\* Property names every object literal inherits from Object.prototype:
\* cityData[name] is a function or an object for these, which is truthy.
ObjectPrototypeKeys == {"constructor", "toString"}

\* A value with no aqi and no pollutants property (an inherited member)
InheritedMember ==
    [aqi |-> Undefined, category |-> "undefined",
     pollutants |-> [defined |-> FALSE, map |-> <<>>]]

\* cityData[location] || cityData['New York, NY']
FallbackEntry(key) ==
    IF key \in DOMAIN cityData THEN cityData[key]
    ELSE IF key \in ObjectPrototypeKeys THEN InheritedMember
    ELSE cityData["New York, NY"]

----------------------------------------------------------------------------
(* Helpers *)

\* getAQICategory with `aqi < 100` in place of `aqi <= 100`
getAQICategoryStrictLimit(aqi) ==
    IF Leq(aqi, 5000) THEN "good"
    ELSE IF Leq(aqi, 10000) /\ aqi # 10000 THEN "moderate"
    ELSE IF Leq(aqi, 15000) THEN "unhealthy-sensitive"
    ELSE IF Leq(aqi, 20000) THEN "unhealthy"
    ELSE IF Leq(aqi, 30000) THEN "very-unhealthy"
    ELSE "hazardous"

getAQICategory(aqi) ==
    IF Leq(aqi, 5000) THEN "good"
    ELSE IF Leq(aqi, 10000) THEN "moderate"
    ELSE IF Leq(aqi, 15000) THEN "unhealthy-sensitive"
    ELSE IF Leq(aqi, 20000) THEN "unhealthy"
    ELSE IF Leq(aqi, 30000) THEN "very-unhealthy"
    ELSE "hazardous"

\* thresholds[pollutant]?.good / ?.moderate: undefined for an unknown pollutant
thresholds ==
    [p \in {"pm25", "pm10", "o3", "no2", "so2", "co"} |->
        CASE p = "pm25" -> [good |-> 1200, moderate |-> 3500]
          [] p = "pm10" -> [good |-> 5400, moderate |-> 15400]
          [] p = "o3"   -> [good |-> 5400, moderate |-> 7000]
          [] p = "no2"  -> [good |-> 5300, moderate |-> 10000]
          [] p = "so2"  -> [good |-> 3500, moderate |-> 7500]
          [] p = "co"   -> [good |-> 440, moderate |-> 940]]

Threshold(pollutant, which) ==
    IF pollutant \in DOMAIN thresholds
    THEN (IF which = "good" THEN thresholds[pollutant].good ELSE thresholds[pollutant].moderate)
    ELSE Undefined

getStatusFromValue(pollutant, value) ==
    IF Leq(value, Threshold(pollutant, "good")) THEN "Good"
    ELSE IF Leq(value, Threshold(pollutant, "moderate")) THEN "Moderate"
    ELSE "Unhealthy"

days == <<"Today", "Tomorrow", "Wed", "Thu", "Fri", "Sat">>

\* One iteration of days.forEach: the running value after the day
NextAqi(currentAqi, r) ==
    MathMax(1000, MathMin(40000, Plus(IF IsNum(currentAqi) THEN (currentAqi * 105) \div 100 ELSE NaN,
                                      Variation(r, 20))))

RECURSIVE ForecastFrom(_, _, _)
ForecastFrom(currentAqi, rs, k) ==
    IF k > Len(days) THEN <<>>
    ELSE LET cur == NextAqi(currentAqi, rs[k])
         IN  <<[day |-> days[k], aqi |-> MathRound(cur), category |-> getAQICategory(cur)]>>
             \o ForecastFrom(cur, rs, k + 1)

\* rs: the six values Math.random() returns, in order
generateForecast(baseAqi, rs) == ForecastFrom(baseAqi, rs, 1)

generateHealthRecommendations(aqi) ==
    IF Leq(aqi, 5000) THEN <<"Ideal air quality for outdoor activities">>
    ELSE IF Leq(aqi, 10000) THEN <<"Air quality is acceptable for most people">>
    ELSE IF Leq(aqi, 15000) THEN <<"Sensitive groups should reduce outdoor activities">>
    ELSE IF Leq(aqi, 20000) THEN <<"Everyone may experience health effects">>
    ELSE <<"Health warnings - avoid outdoor activities">>

----------------------------------------------------------------------------
(* Inputs *)

\* A location as the query string delivers it: a string, or (location[]=x)
\* an array, whose property key is its string form.
Str(s) == [isString |-> TRUE, key |-> s]
Locations ==
    { Str("New York, NY"), Str("Delhi, India"), Str("London, UK"),
      Str("Unknown City, ZZ"), Str("constructor"),
      [isString |-> FALSE, key |-> "Delhi, India"] }

\* location.split(',')[0].trim()
CityName(key) ==
    CASE key = "New York, NY"     -> "New York"
      [] key = "Delhi, India"     -> "Delhi"
      [] key = "London, UK"       -> "London"
      [] key = "Unknown City, ZZ" -> "Unknown City"
      [] OTHER                    -> key

\* One element of response.data.results: a measurement, null, or an object
\* with none of the expected properties.
Measurement(p, v) ==
    [shape |-> "measurement", parameter |-> p, value |-> v, unit |-> "ug/m3", datetime |-> "t1"]
NullElement ==
    [shape |-> "null", parameter |-> "undefined", value |-> Undefined, unit |-> "undefined", datetime |-> "undefined"]
EmptyObject ==
    [shape |-> "empty", parameter |-> "undefined", value |-> Undefined, unit |-> "undefined", datetime |-> "undefined"]

Elements ==
    { Measurement("pm25", 0), Measurement("pm25", 1005), Measurement("pm25", 2400),
      Measurement("pm25", 15000), Measurement("o3", 6000), Measurement("xx", 100),
      NullElement, EmptyObject }

\* The longest results array the provider returns (the request asks for limit: 5)
MaxResults == 2

ResultArrays == UNION { [1..n -> Elements] : n \in 0..MaxResults }

\* What `await axios.get(...)` produces:
\*   reject      the promise rejects (transport failure, non-2xx status)
\*   nodata      a response whose data is undefined
\*   noresults   a response whose data has no results property
\*   notarray    results is a non-empty string
\*   results     results is an array
Outcome(kind, results) == [kind |-> kind, results |-> results]
ProviderOutcomes ==
    { Outcome(k, <<>>) : k \in {"reject", "nodata", "noresults", "notarray"} }
    \cup { Outcome("results", a) : a \in ResultArrays }

NoResponse == Outcome("none", <<>>)

\* Values of Math.random(), in hundredths of [0, 1)
RandomValues == {0, 3, 50, 99}
ForecastRandoms == {0, 99}

----------------------------------------------------------------------------
(* Provider adapter: getOpenAQData, src/server.js:85-124 *)

Null == [isNull |-> TRUE]
Thrown == [threw |-> TRUE, value |-> Null]
Returned(v) == [threw |-> FALSE, value |-> v]

\* response.data.results.forEach(m => pollutants[m.parameter] = {...}):
\* a later measurement of a parameter overwrites an earlier one; reading
\* m.parameter of a null element throws.
RECURSIVE BuildPollutants(_, _, _)
BuildPollutants(results, k, acc) ==
    IF k > Len(results) THEN Returned(acc)
    ELSE IF results[k].shape = "null" THEN Thrown
    ELSE LET m == results[k]
             e == [value |-> m.value, unit |-> m.unit,
                   status |-> getStatusFromValue(m.parameter, m.value)]
         IN  BuildPollutants(results, k + 1,
                 [p \in (DOMAIN acc) \cup {m.parameter} |->
                     IF p = m.parameter THEN e ELSE acc[p]])

\* pollutants.pm25?.value || 15
Pm25OrDefault(pollutants) ==
    IF "pm25" \in DOMAIN pollutants
       /\ IsNum(pollutants["pm25"].value) /\ pollutants["pm25"].value # 0
    THEN pollutants["pm25"].value
    ELSE 1500

\* The body of the try block
OpenAQTry(loc, resp) ==
    IF ~loc.isString THEN Thrown                      \* location.split is not a function
    ELSE IF resp.kind = "reject" THEN Thrown          \* await axios.get rejects
    ELSE IF resp.kind = "nodata" THEN Thrown          \* response.data.results of undefined
    ELSE IF resp.kind = "noresults" THEN Returned(Null)
    ELSE IF resp.kind = "notarray" THEN Thrown        \* results.forEach is not a function
    ELSE IF Len(resp.results) = 0 THEN Returned(Null)
    ELSE LET built == BuildPollutants(resp.results, 1, <<>>)
         IN  IF built.threw THEN Thrown
             ELSE LET pm25 == Pm25OrDefault(built.value)
                      calculatedAqi == MathMin(50000, MathMax(0, Times(pm25, 5)))
                  IN  Returned([isNull |-> FALSE,
                                aqi |-> MathRound(calculatedAqi),
                                category |-> getAQICategory(calculatedAqi),
                                location |-> CityName(loc.key),
                                pollutants |-> [defined |-> TRUE, map |-> built.value],
                                lastUpdated |-> resp.results[1].datetime])

\* try { ... } catch (error) { console.log(...) } return null
getOpenAQData(loc, resp) ==
    LET r == OpenAQTry(loc, resp)
    IN  IF r.threw THEN Returned(Null) ELSE r

----------------------------------------------------------------------------
(* Resolver: getAirQualityData, src/server.js:127-148 *)

NoData ==
    [path |-> "none", aqi |-> 0, category |-> "none", location |-> "none",
     pollutants |-> [defined |-> FALSE, map |-> <<>>], forecast |-> <<>>,
     healthRecommendations |-> <<>>, lastUpdated |-> "none"]

\* lines 129-133: the provider path
ProviderReading(loc, d, rs) ==
    [path |-> "provider", aqi |-> d.aqi, category |-> d.category,
     location |-> d.location, pollutants |-> d.pollutants,
     forecast |-> generateForecast(d.aqi, rs),
     healthRecommendations |-> generateHealthRecommendations(d.aqi),
     lastUpdated |-> d.lastUpdated]

\* lines 135-147: the fallback path; r is the value of Math.random() at line 136
FallbackReading(loc, r, rs) ==
    LET fallback == FallbackEntry(loc.key)
        variation == Variation(r, 10)
        currentAqi == MathMax(0, Plus(fallback.aqi, variation))
    IN  [path |-> "fallback", aqi |-> MathRound(currentAqi),
         category |-> getAQICategory(currentAqi),
         location |-> loc.key, pollutants |-> fallback.pollutants,
         forecast |-> generateForecast(currentAqi, rs),
         healthRecommendations |-> generateHealthRecommendations(currentAqi),
         lastUpdated |-> "now"]

\* The whole function once the provider call has produced resp
getAirQualityData(loc, resp, r, rs) ==
    LET got == getOpenAQData(loc, resp)
    IN  IF got.threw THEN [raised |-> TRUE, openAQData |-> Null, data |-> NoData]
        ELSE IF ~got.value.isNull
        THEN [raised |-> FALSE, openAQData |-> got.value,
              data |-> ProviderReading(loc, got.value, rs)]
        ELSE [raised |-> FALSE, openAQData |-> Null,
              data |-> FallbackReading(loc, r, rs)]

----------------------------------------------------------------------------
(* HTTP: GET /api/air-quality, src/server.js:151-155 *)

HttpInit ==
    /\ pc = "idle"
    /\ location = Str("New York, NY")
    /\ response = NoResponse
    /\ openAQData = Null
    /\ raised = FALSE
    /\ data = NoData

\* Math.random() at line 136 is drawn on the fallback path only
FallbackRandoms(loc, resp) ==
    IF getOpenAQData(loc, resp).value.isNull THEN RandomValues ELSE {0}

Finish(loc, resp, r, rs) ==
    LET out == getAirQualityData(loc, resp, r, rs)
    IN  /\ pc' = "done"
        /\ response' = resp
        /\ openAQData' = out.openAQData
        /\ raised' = out.raised
        /\ data' = out.data

\* A request for a string location: runs up to `await axios.get`
Request(loc) ==
    /\ pc = "idle"
    /\ loc.isString
    /\ pc' = "awaitProvider"
    /\ location' = loc
    /\ UNCHANGED <<response, openAQData, raised, data, catCall, wsVars>>

\* A request whose location is not a string: location.split throws before
\* the provider is called, and the resolution runs to its end
RequestNonString(loc, r, rs) ==
    /\ pc = "idle"
    /\ ~loc.isString
    /\ location' = loc
    /\ Finish(loc, NoResponse, r, rs)
    /\ UNCHANGED <<catCall, wsVars>>

\* The provider call settles and the resolution runs to its end
ProviderSettles(resp, r, rs) ==
    /\ pc = "awaitProvider"
    /\ Finish(location, resp, r, rs)
    /\ UNCHANGED <<location, catCall, wsVars>>

\* res.json(data): the response is sent and the handler ends
Respond ==
    /\ pc = "done"
    /\ pc' = "idle"
    /\ location' = Str("New York, NY")
    /\ response' = NoResponse
    /\ openAQData' = Null
    /\ raised' = FALSE
    /\ data' = NoData
    /\ UNCHANGED <<catCall, wsVars>>

RandomSeqs == [1..Len(days) -> ForecastRandoms]

HttpNext ==
    \/ \E loc \in Locations : Request(loc)
    \/ /\ pc = "idle"
       /\ \E loc \in {l \in Locations : ~l.isString}, rs \in RandomSeqs :
             \E r \in FallbackRandoms(loc, NoResponse) : RequestNonString(loc, r, rs)
    \/ /\ pc = "awaitProvider"
       /\ \E resp \in ProviderOutcomes, rs \in RandomSeqs :
             \E r \in FallbackRandoms(location, resp) : ProviderSettles(resp, r, rs)
    \/ Respond

----------------------------------------------------------------------------
(* Helper harness: getAQICategory applied as a pure function *)

\* Every half unit of [0, 500] and the hundredths next to each band limit
CategoryInputs ==
    { k * 50 : k \in 0..1000 }
    \cup { b + d : b \in {5000, 10000, 15000, 20000, 30000}, d \in {0 - 1, 1} }

CategoryProbes ==
    { 0, 4999, 5000, 5001, 9999, 10000, 10001, 14999, 15000, 15001,
      19999, 20000, 20001, 29999, 30000, 30001, 50000 }

NoCall == [called |-> FALSE, arg |-> 0, res |-> "none"]
Call(i) == [called |-> TRUE, arg |-> i, res |-> getAQICategory(i)]

HelperInit == catCall = <<NoCall, NoCall>>

\* Two calls of getAQICategory
CallCategory(i, j) ==
    /\ ~catCall[1].called
    /\ catCall' = <<Call(i), Call(j)>>
    /\ UNCHANGED <<httpVars, wsVars>>

\* The results are used and dropped
ReturnCategory ==
    /\ catCall[1].called
    /\ catCall' = <<NoCall, NoCall>>
    /\ UNCHANGED <<httpVars, wsVars>>

HelperNext ==
    \/ /\ ~catCall[1].called
       /\ \E i \in CategoryInputs, j \in CategoryProbes : CallCategory(i, j)
    \/ ReturnCategory

----------------------------------------------------------------------------
(* WebSocket: wss.on('connection'), src/server.js:178-186 *)

Clients == {"c1", "c2"}

\* How many times one connection's timer fires in a run
MaxTicks == 2

WsInit ==
    /\ conn = [c \in Clients |-> "none"]
    /\ timer = [c \in Clients |-> FALSE]
    /\ ticks = [c \in Clients |-> 0]
    /\ started = [c \in Clients |-> <<>>]
    /\ inflight = [c \in Clients |-> {}]
    /\ received = [c \in Clients |-> <<>>]

\* A call of getAirQualityData('New York, NY'); kind is the type of the
\* message its continuation sends
StartResolution(c, kind) ==
    /\ started' = [started EXCEPT ![c] = Append(@, [kind |-> kind, connAtStart |-> conn'[c]])]
    /\ inflight' = [inflight EXCEPT ![c] = @ \cup {Len(started[c]) + 1}]

\* A close handler that does not clear the interval
TimersAfterCloseNotCleared(c) == timer

\* ws.on('close', () => clearInterval(interval))
TimersAfterClose(c) == [timer EXCEPT ![c] = FALSE]

\* The connection handler: starts the initial resolution, sets the interval
\* timer and registers the close handler
Connect(c) ==
    /\ conn[c] = "none"
    /\ conn' = [conn EXCEPT ![c] = "open"]
    /\ StartResolution(c, "initial")
    /\ timer' = [timer EXCEPT ![c] = TRUE]
    /\ UNCHANGED <<ticks, received, httpVars, catCall>>

\* The interval callback up to its await
Tick(c) ==
    /\ timer[c]
    /\ ticks[c] < MaxTicks
    /\ ticks' = [ticks EXCEPT ![c] = @ + 1]
    /\ conn' = conn
    /\ StartResolution(c, "update")
    /\ UNCHANGED <<timer, received, httpVars, catCall>>

\* The connection closes and the close handler runs
Close(c) ==
    /\ conn[c] = "open"
    /\ conn' = [conn EXCEPT ![c] = "closed"]
    /\ timer' = TimersAfterClose(c)
    /\ UNCHANGED <<ticks, started, inflight, received, httpVars, catCall>>

\* Resolution k of client c completes and its continuation calls ws.send:
\* the message reaches the client when the socket is open, and no message
\* leaves a closed socket
Settle(c, k) ==
    /\ k \in inflight[c]
    /\ inflight' = [inflight EXCEPT ![c] = @ \ {k}]
    /\ received' = [received EXCEPT ![c] =
                       IF conn[c] = "open" THEN Append(@, started[c][k].kind) ELSE @]
    /\ UNCHANGED <<conn, timer, ticks, started, httpVars, catCall>>

WsNext ==
    \/ \E c \in Clients : Connect(c)
    \/ \E c \in Clients : Tick(c)
    \/ \E c \in Clients : Close(c)
    \/ \E c \in Clients : \E k \in inflight[c] : Settle(c, k)

----------------------------------------------------------------------------
(* Specifications *)

Init == HttpInit /\ HelperInit /\ WsInit

\* The HTTP resolution
Spec == Init /\ [][HttpNext]_vars

\* The WebSocket connections
SpecWS == Init /\ [][WsNext]_vars

\* getAQICategory as a pure function
SpecHelpers == Init /\ [][HelperNext]_vars

----------------------------------------------------------------------------
(* Claims *)

Categories ==
    <<"good", "moderate", "unhealthy-sensitive", "unhealthy", "very-unhealthy", "hazardous">>

Done == pc = "done"

\* The provider call failed, or its response has not the documented shape
\* { results: [ { parameter, value, unit, datetime }, ... ] } with a result in it
ProviderGaveNothing ==
    \/ ~location.isString
    \/ response.kind \in {"reject", "nodata", "noresults", "notarray"}
    \/ /\ response.kind = "results"
       /\ \/ Len(response.results) = 0
          \/ \E k \in 1..Len(response.results) : response.results[k].shape # "measurement"

\* Every field of the Reading has a value
CompleteReading(d) ==
    /\ IsNum(d.aqi)
    /\ \E k \in 1..Len(Categories) : d.category = Categories[k]
    /\ d.location # "undefined"
    /\ d.pollutants.defined
    /\ Len(d.forecast) = Len(days)
    /\ Len(d.healthRecommendations) >= 1
    /\ d.lastUpdated # "undefined"

\* C1: getAirQualityData never raises: whenever the provider call fails or
\* answers with an empty or malformed response, getOpenAQData returns null;
\* the fallback path is taken exactly when getOpenAQData returned null; and
\* the Reading returned is complete.
C1_NeverRaisesAndFallsBack ==
    Done =>
        /\ ~raised
        /\ (ProviderGaveNothing => openAQData.isNull)
        /\ (data.path = "fallback" <=> openAQData.isNull)
        /\ CompleteReading(data)

\* C2: in every Reading and every ForecastDay the category is getAQICategory
\* of the reported (rounded) index of the same record.
C2_CategoryOfReportedIndex ==
    Done =>
        /\ data.category = getAQICategory(data.aqi)
        /\ \A k \in 1..Len(data.forecast) :
              data.forecast[k].category = getAQICategory(data.forecast[k].aqi)

\* The value before the clamp one day after a reported value v lies between
\* these two (v is within half a unit of the running value, the noise
\* within 10)
ClampForecast(x) == IF x < 1000 THEN 1000 ELSE IF x > 40000 THEN 40000 ELSE x
LowestNext(v) == ClampForecast(((v - 50) * 105) \div 100 - 1000 - 50)
HighestNext(v) == ClampForecast(((v + 50) * 105) \div 100 + 1000 + 50 + 1)

\* C5: the forecast has exactly 6 entries labelled Today, Tomorrow, Wed, Thu,
\* Fri, Sat in that order, every index lies in [10, 400], and each follows
\* from the one before by clamp(previous * 1.05 + noise, 10, 400) with noise
\* in [-10, +10].
C5_ForecastShape ==
    Done =>
        /\ Len(data.forecast) = 6
        /\ \A k \in 1..Len(data.forecast) :
              /\ data.forecast[k].day = days[k]
              /\ IsNum(data.forecast[k].aqi)
              /\ data.forecast[k].aqi >= 1000
              /\ data.forecast[k].aqi <= 40000
        /\ \A k \in 1..(Len(data.forecast) - 1) :
              /\ data.forecast[k + 1].aqi >= LowestNext(data.forecast[k].aqi)
              /\ data.forecast[k + 1].aqi <= HighestNext(data.forecast[k].aqi)

\* clamp(v * 5, 0, 500), rounded as the Reading reports it
IndexOfPm25(v) ==
    LET x == v * 5
        c == IF x < 0 THEN 0 ELSE IF x > 50000 THEN 50000 ELSE x
    IN  ((c + 50) \div 100) * 100

\* C6: on the provider path the index is clamp(pm25 * 5, 0, 500) whenever a
\* pm25 measurement is among the results, for every pm25 value including 0,
\* and 75 (the surrogate 15) only when there is none.
C6_IndexFromPm25 ==
    (Done /\ data.path = "provider") =>
        IF "pm25" \in DOMAIN data.pollutants.map
        THEN data.aqi = IndexOfPm25(data.pollutants.map["pm25"].value)
        ELSE data.aqi = 7500

BandLimits == <<5000, 10000, 15000, 20000, 30000>>

\* The first band whose limit is at least i, the last band when there is none
ExpectedBand(i) ==
    IF \E k \in 1..Len(BandLimits) : i <= BandLimits[k]
    THEN CHOOSE k \in 1..Len(BandLimits) :
            /\ i <= BandLimits[k]
            /\ \A m \in 1..(k - 1) : i > BandLimits[m]
    ELSE Len(Categories)

Severity(c) == CHOOSE k \in 1..Len(Categories) : Categories[k] = c

\* C7: for every index in [0, 500] getAQICategory returns the band of the
\* table (<= 50 good, <= 100 moderate, <= 150 unhealthy-sensitive, <= 200
\* unhealthy, <= 300 very-unhealthy, else hazardous), and a larger index
\* never gets a less severe band.
C7_CategoryBands ==
    catCall[1].called =>
        /\ \A n \in 1..2 : catCall[n].res = Categories[ExpectedBand(catCall[n].arg)]
        /\ (catCall[1].arg <= catCall[2].arg
               => Severity(catCall[1].res) <= Severity(catCall[2].res))
        /\ (catCall[2].arg <= catCall[1].arg
               => Severity(catCall[2].res) <= Severity(catCall[1].res))

\* C7 witness: two calls on either side of the limit 100 got different bands
C7_Witness ==
    /\ catCall[1].called
    /\ catCall[1].arg = 10050 /\ catCall[1].res = "unhealthy-sensitive"
    /\ catCall[2].arg = 10000 /\ catCall[2].res = "moderate"

\* The categories a fallback Reading for 'New York, NY' can carry
NewYorkCategories ==
    { getAQICategory(MathMax(0, Plus(cityData["New York, NY"].aqi, Variation(r, 10)))) :
        r \in RandomValues }

\* C8: on the fallback path a location string that is no key of cityData
\* gets the 'New York, NY' entry: its pollutants, an index within 5 of 78
\* and at least 0, and the category 'New York, NY' gets.
C8_UnknownLocationIsNewYork ==
    (Done /\ data.path = "fallback" /\ location.isString
          /\ location.key \notin DOMAIN cityData) =>
        /\ data.pollutants = cityData["New York, NY"].pollutants
        /\ IsNum(data.aqi)
        /\ data.aqi >= 7800 - 500 /\ data.aqi <= 7800 + 500 /\ data.aqi >= 0
        /\ data.category \in NewYorkCategories

\* C9: every pollutant entry of a Reading for a location string has status
\* Good, Moderate or Unhealthy, on the provider path and on the fallback path.
C9_PollutantStatus ==
    (Done /\ location.isString /\ data.pollutants.defined) =>
        \A p \in DOMAIN data.pollutants.map :
            data.pollutants.map[p].status \in {"Good", "Moderate", "Unhealthy"}

\* The advisory that goes with a category
AdvisoryOf(category) ==
    CASE category = "good" -> <<"Ideal air quality for outdoor activities">>
      [] category = "moderate" -> <<"Air quality is acceptable for most people">>
      [] category = "unhealthy-sensitive" -> <<"Sensitive groups should reduce outdoor activities">>
      [] category = "unhealthy" -> <<"Everyone may experience health effects">>
      [] OTHER -> <<"Health warnings - avoid outdoor activities">>

\* C10: in every Reading the health recommendations are the advisory of the
\* band the category names.
C10_AdvisoryMatchesCategory ==
    Done => data.healthRecommendations = AdvisoryOf(data.category)

Count(seq, x) == Cardinality({k \in 1..Len(seq) : seq[k] = x})

\* C3: a client gets at most one 'initial' message and no 'update' before
\* it, and an 'update' only after a timer tick, whatever the order in which
\* the resolutions complete.
C3_InitialFirst ==
    \A c \in Clients :
        /\ Count(received[c], "initial") <= 1
        /\ Count(received[c], "update") <= ticks[c]
        /\ (received[c] # <<>> => received[c][1] = "initial")

\* C4: the active timers are exactly the timers of the open connections,
\* and every resolution was started while its connection was open.
C4_TimerPerOpenConnection ==
    \A c \in Clients :
        /\ timer[c] <=> conn[c] = "open"
        /\ \A k \in 1..Len(started[c]) : started[c][k].connAtStart = "open"

\* C4 witness: one client closed after its timer had ticked while another
\* is still open with its timer ticking
C4_Witness ==
    \E c, d \in Clients :
        /\ c # d
        /\ conn[c] = "closed" /\ ticks[c] > 0 /\ ~timer[c]
        /\ conn[d] = "open" /\ ticks[d] > 0 /\ timer[d]

====
